---- MODULE Spec2Model ----
(***************************************************************************)
(* Model of PoChartBaseComponent                                           *)
(* (projects/ui/src/lib/components/po-chart/po-chart-base.component.ts).   *)
(*                                                                         *)
(* The component is a set of property setters driven by a host: p-height,  *)
(* p-series, p-type, p-axis-options, p-categories, p-title, and two event  *)
(* relays.  Every setter runs to completion, so one action is one call.    *)
(*                                                                         *)
(* JavaScript values are tagged records.  Numbers are kept in tenths       *)
(* (n = 3507 is 350.7) so that the conversion to an integer is a real      *)
(* truncation.  Arrays and objects the caller owns live in a heap          *)
(* (arrays, objects) and are passed by reference; what the component       *)
(* allocates itself ([...x], {...x}, []) is held by value, because nobody  *)
(* else has a reference to it.                                             *)
(***************************************************************************)
EXTENDS Integers, Sequences, FiniteSets

VARIABLES
  _axisOptions,   \* private _axisOptions
  _height,        \* private _height
  _series,        \* private _series
  _type,          \* private _type
  minMaxValues,   \* minMaxValues
  chartSeries,    \* protected chartSeries
  categories,     \* @Input('p-categories')
  title,          \* @Input('p-title')
  seriesClick,    \* payloads delivered on the p-series-click emitter, in order
  seriesHover,    \* payloads delivered on the p-series-hover emitter, in order
  rebuilds,       \* what each rebuildComponent() call observed, in order
  arrays,         \* heap: the caller's arrays
  objects,        \* heap: the caller's objects
  heightInput,    \* the value of the most recent p-height assignment
  lastCall,       \* the call that produced this state
  calls           \* number of calls so far

vars == <<_axisOptions, _height, _series, _type, minMaxValues, chartSeries,
          categories, title, seriesClick, seriesHover, rebuilds, arrays,
          objects, heightInput, lastCall, calls>>

component == <<_axisOptions, _height, _series, _type, minMaxValues,
               chartSeries, categories, title>>
heap == <<arrays, objects>>

\* Length of the call sequences explored.
MaxCalls == 3
\* Longest array the caller builds.
MaxArrayLen == 3

-----------------------------------------------------------------------------
(* JavaScript values *)

Undefined == [t |-> "undefined"]
Null == [t |-> "null"]
NaN == [t |-> "NaN"]
Number(tenths) == [t |-> "number", n |-> tenths]
Whole(i) == Number(i * 10)
Str(s) == [t |-> "string", s |-> s]
ArrRef(a) == [t |-> "array", id |-> a]
ObjRef(o) == [t |-> "object", id |-> o]
OwnArr(elems) == [t |-> "ownarray", elems |-> elems]
OwnObj(fields) == [t |-> "ownobject", fields |-> fields]

\* JavaScript truthiness (used by || ).
Truthy(v) ==
  CASE v.t \in {"undefined", "null", "NaN"} -> FALSE
    [] v.t = "number" -> v.n # 0
    [] v.t = "string" -> v.s # ""
    [] OTHER -> TRUE

\* Array.isArray
IsArray(v) == v.t \in {"array", "ownarray"}

\* typeof v
TypeOf(v) ==
  CASE v.t \in {"number", "NaN"} -> "number"
    [] v.t = "string" -> "string"
    [] v.t = "undefined" -> "undefined"
    [] OTHER -> "object"

\* The elements of an array value, and the own fields of an object value.
ElemsOf(v, arrs) == IF v.t = "array" THEN arrs[v.id] ELSE v.elems
FieldsOf(v, objs) == IF v.t = "object" THEN objs[v.id] ELSE v.fields

-----------------------------------------------------------------------------
(* Constants and imports of the component *)

poChartDefaultHeight == 400
poChartMinHeight == 200

\* enum PoChartType (string enum); Object.values(PoChartType) is its range.
PoChartType ==
  [Pie |-> Str("pie"), Donut |-> Str("donut"), Line |-> Str("line"),
   Gauge |-> Str("gauge"), Area |-> Str("area")]
PoChartTypeValues == {PoChartType[k] : k \in DOMAIN PoChartType}

poChartTypeDefault == PoChartType.Pie

\* util isTypeof(object, type): typeof object === type
isTypeof(object, type) == TypeOf(object) = type

\* util convertToInt(value): the integer part of a number, truncated toward
\* zero; a value with no integer part converts to nothing.
convertToInt(value) ==
  IF value.t = "number"
    THEN Number(IF value.n >= 0 THEN (value.n \div 10) * 10
                                ELSE -(((-value.n) \div 10) * 10))
    ELSE Undefined

\* a <= k for a JavaScript value a and an integer k (false when a is not a
\* number, as undefined <= k and NaN <= k are).
LessEq(a, k) == a.t = "number" /\ a.n <= k * 10

\* The data points of one series: its data sequence, or its single data
\* number.  In tenths.
PointsOf(fields, arrs) ==
  LET nums(v) ==
        CASE v.t = "number" -> {v.n}
          [] IsArray(v) ->
               {ElemsOf(v, arrs)[i].n :
                  i \in {j \in 1..Len(ElemsOf(v, arrs)) :
                           ElemsOf(v, arrs)[j].t = "number"}}
          [] OTHER -> {}
  IN IF "data" \in DOMAIN fields THEN nums(fields["data"]) ELSE {}

AllPoints(series, arrs, objs) ==
  UNION {PointsOf(FieldsOf(ElemsOf(series, arrs)[i], objs), arrs) :
           i \in 1..Len(ElemsOf(series, arrs))}

\* helpers/maths calculateMaxValue(series): global minimum and maximum over
\* every data point of every series; undefined when there is none.
calculateMaxValue(series) ==
  LET pts == AllPoints(series, arrays, objects)
  IN IF pts = {} THEN Undefined
     ELSE [t |-> "minmax",
           min |-> CHOOSE m \in pts : \A q \in pts : m <= q,
           max |-> CHOOSE m \in pts : \A q \in pts : m >= q]

\* EventEmitter.emit(value): the subscriber receives value, once.
emit(emitter, value) == Append(emitter, value)

-----------------------------------------------------------------------------
(* The component *)

\* private setDefaultHeight()
setDefaultHeight ==
  IF _type = PoChartType.Gauge THEN Whole(poChartMinHeight)
                               ELSE Whole(poChartDefaultHeight)

\* get height()
height == IF Truthy(_height) THEN _height ELSE setDefaultHeight

\* Variant of clampHeight: the minimum height is not enforced.
clampHeight_noFloor(intValue) == intValue

\* The value the height setter computes for a number.
clampHeight(intValue) ==
  IF LessEq(intValue, poChartMinHeight) THEN Whole(poChartMinHeight)
                                        ELSE intValue

\* Variant of newHeight: the number is not converted to an integer.
newHeight_noConvert(value) ==
  IF isTypeof(value, "number") THEN clampHeight(value) ELSE setDefaultHeight

\* The value the height setter stores.
newHeight(value) ==
  LET intValue == convertToInt(value)
  IN IF isTypeof(value, "number") THEN clampHeight(intValue)
                                  ELSE setDefaultHeight

\* Variant of newType: the value is stored without the membership test.
newType_unchecked(value) == value

\* The value the type setter stores.
newType(value) ==
  IF value \in PoChartTypeValues THEN value ELSE poChartTypeDefault

\* Variant of transformObjectToArrayObject: an object is wrapped even when
\* it has no keys.
transformObjectToArrayObject_noKeyCheck(serie) ==
  IF TypeOf(serie) = "object"
    THEN OwnArr(<<OwnObj(FieldsOf(serie, objects))>>)
    ELSE OwnArr(<<>>)

\* Variant of transformObjectToArrayObject: [serie] instead of [{...serie}].
transformObjectToArrayObject_alias(serie) ==
  IF TypeOf(serie) = "object"
       /\ Cardinality(DOMAIN FieldsOf(serie, objects)) # 0
    THEN OwnArr(<<serie>>)
    ELSE OwnArr(<<>>)

\* private transformObjectToArrayObject(serie)
transformObjectToArrayObject(serie) ==
  IF TypeOf(serie) = "object"
       /\ Cardinality(DOMAIN FieldsOf(serie, objects)) # 0
    THEN OwnArr(<<OwnObj(FieldsOf(serie, objects))>>)
    ELSE OwnArr(<<>>)

\* Variant of spread: the array itself instead of [...series].
spread_alias(series) == series

\* [...series]
spread(series) == OwnArr(ElemsOf(series, arrays))

\* What rebuildComponent() sees when it is called with the given fields.
rebuildComponent(h, ty) == Append(rebuilds, [height |-> h, type |-> ty])

Called(op, arg) ==
  /\ calls < MaxCalls
  /\ calls' = calls + 1
  /\ lastCall' = [op |-> op, arg |-> arg]

\* set height(value)
setHeight(value) ==
  /\ Called("setHeight", value)
  /\ _height' = newHeight(value)
  /\ rebuilds' = rebuildComponent(_height', _type)
  /\ heightInput' = value
  /\ UNCHANGED <<_axisOptions, _series, _type, minMaxValues, chartSeries,
                 categories, title, seriesClick, seriesHover, heap>>

\* set series(value)
setSeries(value) ==
  LET series == IF Truthy(value) THEN value ELSE OwnArr(<<>>)
  IN /\ Called("setSeries", value)
     /\ _series' = series
     /\ IF IsArray(series)
          THEN /\ minMaxValues' = calculateMaxValue(series)
               /\ chartSeries' = spread(series)
          ELSE /\ chartSeries' = transformObjectToArrayObject(series)
               /\ UNCHANGED minMaxValues
     /\ UNCHANGED <<_axisOptions, _height, _type, categories, title,
                    seriesClick, seriesHover, rebuilds, heap, heightInput>>

\* Variant of the type setter: rebuildComponent() is called before the
\* assignment.
setType_rebuildFirst(value) ==
  /\ Called("setType", value)
  /\ rebuilds' = rebuildComponent(_height, _type)
  /\ _type' = newType(value)
  /\ UNCHANGED <<_axisOptions, _height, _series, minMaxValues, chartSeries,
                 categories, title, seriesClick, seriesHover, heap,
                 heightInput>>

\* set type(value)
setType(value) ==
  /\ Called("setType", value)
  /\ _type' = newType(value)
  /\ rebuilds' = rebuildComponent(_height, _type')
  /\ UNCHANGED <<_axisOptions, _height, _series, minMaxValues, chartSeries,
                 categories, title, seriesClick, seriesHover, heap,
                 heightInput>>

\* set axisOptions(value)
setAxisOptions(value) ==
  /\ Called("setAxisOptions", value)
  /\ _axisOptions' = value
  /\ UNCHANGED <<_height, _series, _type, minMaxValues, chartSeries,
                 categories, title, seriesClick, seriesHover, rebuilds, heap,
                 heightInput>>

\* @Input('p-categories') categories
setCategories(value) ==
  /\ Called("setCategories", value)
  /\ categories' = value
  /\ UNCHANGED <<_axisOptions, _height, _series, _type, minMaxValues,
                 chartSeries, title, seriesClick, seriesHover, rebuilds, heap,
                 heightInput>>

\* @Input('p-title') title
setTitle(value) ==
  /\ Called("setTitle", value)
  /\ title' = value
  /\ UNCHANGED <<_axisOptions, _height, _series, _type, minMaxValues,
                 chartSeries, categories, seriesClick, seriesHover, rebuilds,
                 heap, heightInput>>

\* onSeriesClick(event)
onSeriesClick(event) ==
  /\ Called("onSeriesClick", event)
  /\ seriesClick' = emit(seriesClick, event)
  /\ UNCHANGED <<component, seriesHover, rebuilds, heap, heightInput>>

\* Variant of onSeriesHover: it emits on the click emitter.
onSeriesHover_clickEmitter(event) ==
  /\ Called("onSeriesHover", event)
  /\ seriesClick' = emit(seriesClick, event)
  /\ UNCHANGED <<component, seriesHover, rebuilds, heap, heightInput>>

\* onSeriesHover(event)
onSeriesHover(event) ==
  /\ Called("onSeriesHover", event)
  /\ seriesHover' = emit(seriesHover, event)
  /\ UNCHANGED <<component, seriesClick, rebuilds, heap, heightInput>>

-----------------------------------------------------------------------------
(* The caller: it keeps the references it passed and may change what they   *)
(* point to between two calls.                                              *)

SeriesArrays == {"a0", "a1"}
DataArrays == {"d1", "d2"}
ObjIds == {"o1", "o2", "g1", "e1"}

\* v.push(elem)
CallerPush(a, elem) ==
  /\ Len(arrays[a]) < MaxArrayLen
  /\ Called("push", [target |-> ArrRef(a), value |-> elem])
  /\ arrays' = [arrays EXCEPT ![a] = Append(@, elem)]
  /\ UNCHANGED <<component, objects, seriesClick, seriesHover, rebuilds,
                 heightInput>>

\* v.pop()
CallerPop(a) ==
  /\ Len(arrays[a]) > 0
  /\ Called("pop", [target |-> ArrRef(a)])
  /\ arrays' = [arrays EXCEPT ![a] = SubSeq(@, 1, Len(@) - 1)]
  /\ UNCHANGED <<component, objects, seriesClick, seriesHover, rebuilds,
                 heightInput>>

\* o[key] = value
CallerSetField(o, key, value) ==
  /\ Called("setField", [target |-> ObjRef(o), key |-> key, value |-> value])
  /\ objects' = [objects EXCEPT ![o] =
                   [k \in DOMAIN @ \cup {key} |->
                      IF k = key THEN value ELSE @[k]]]
  /\ UNCHANGED <<component, arrays, seriesClick, seriesHover, rebuilds,
                 heightInput>>

\* delete o[key]
CallerDeleteField(o, key) ==
  /\ key \in DOMAIN objects[o]
  /\ Called("deleteField", [target |-> ObjRef(o), key |-> key])
  /\ objects' = [objects EXCEPT ![o] = [k \in DOMAIN @ \ {key} |-> @[k]]]
  /\ UNCHANGED <<component, arrays, seriesClick, seriesHover, rebuilds,
                 heightInput>>

\* d[i] = value, d the data sequence of a series
CallerSetDataPoint(d, i, value) ==
  /\ i \in 1..Len(arrays[d])
  /\ Called("setDataPoint", [target |-> ArrRef(d), index |-> i,
                             value |-> value])
  /\ arrays' = [arrays EXCEPT ![d][i] = value]
  /\ UNCHANGED <<component, objects, seriesClick, seriesHover, rebuilds,
                 heightInput>>

-----------------------------------------------------------------------------
(* Inputs *)

HeightInputs ==
  {Undefined, Null, NaN, Str("300"), Number(-1505), Whole(0), Whole(150),
   Whole(200), Number(2009), Whole(201), Number(3507)}
TypeInputs == PoChartTypeValues \cup {Str("bogus"), Null, Whole(123)}
SeriesInputs ==
  {Undefined, Null, Whole(7), Str("abc"), ArrRef("a0"), ArrRef("a1"),
   ObjRef("g1"), ObjRef("e1")}
AxisInputs == {Undefined, ObjRef("e1")}
CategoriesInputs == {Undefined, ArrRef("a0")}
TitleInputs == {Undefined, Str("Title")}
EventInputs == {Null, ObjRef("o1")}
FieldInputs == {<<"value", Whole(70)>>, <<"label", Str("Z")>>}
PointInputs == {Whole(100)}

Init ==
  /\ _axisOptions = Undefined
  /\ _height = Undefined
  /\ _series = Undefined
  /\ _type = poChartTypeDefault
  /\ minMaxValues = Undefined
  /\ chartSeries = Undefined
  /\ categories = Undefined
  /\ title = Undefined
  /\ seriesClick = <<>>
  /\ seriesHover = <<>>
  /\ rebuilds = <<>>
  /\ arrays = [a0 |-> <<>>,
               a1 |-> <<ObjRef("o1"), ObjRef("o2")>>,
               d1 |-> <<Whole(1), Whole(5), Whole(3)>>,
               d2 |-> <<Whole(-2), Whole(9)>>]
  /\ objects = [o1 |-> [label |-> Str("A"), data |-> ArrRef("d1")],
                o2 |-> [label |-> Str("B"), data |-> ArrRef("d2")],
                g1 |-> [value |-> Whole(42)],
                e1 |-> [k \in {} |-> Undefined]]
  /\ heightInput = Undefined
  /\ lastCall = [op |-> "constructor", arg |-> Undefined]
  /\ calls = 0

Next ==
  \/ \E value \in HeightInputs : setHeight(value)
  \/ \E value \in SeriesInputs : setSeries(value)
  \/ \E value \in TypeInputs : setType(value)
  \/ \E value \in AxisInputs : setAxisOptions(value)
  \/ \E value \in CategoriesInputs : setCategories(value)
  \/ \E value \in TitleInputs : setTitle(value)
  \/ \E event \in EventInputs : onSeriesClick(event)
  \/ \E event \in EventInputs : onSeriesHover(event)

Spec == Init /\ [][Next]_vars

\* The series input together with a caller that changes, between calls, the
\* structures it handed over.
NextCaller ==
  \/ \E value \in SeriesInputs : setSeries(value)
  \/ \E a \in SeriesArrays : CallerPush(a, ObjRef("o2"))
  \/ \E a \in SeriesArrays : CallerPop(a)
  \/ \E o \in ObjIds, kv \in FieldInputs : CallerSetField(o, kv[1], kv[2])
  \/ \E o \in ObjIds, key \in {"label", "data", "value"} :
       CallerDeleteField(o, key)
  \/ \E d \in DataArrays, value \in PointInputs :
       CallerSetDataPoint(d, 1, value)

SpecCaller == Init /\ [][NextCaller]_vars

-----------------------------------------------------------------------------
(* Properties *)

RECURSIVE View(_, _, _)
\* What a reader sees through a value: its content, references followed.
View(v, arrs, objs) ==
  CASE IsArray(v) ->
         [t |-> "Array",
          elems |-> [i \in 1..Len(ElemsOf(v, arrs)) |->
                       View(ElemsOf(v, arrs)[i], arrs, objs)]]
    [] v.t \in {"object", "ownobject"} ->
         [t |-> "Object",
          fields |-> [k \in DOMAIN FieldsOf(v, objs) |->
                        View(FieldsOf(v, objs)[k], arrs, objs)]]
    [] OTHER -> v

Gauge == Str("gauge")
Pie == Str("pie")
CallerOps == {"push", "pop", "setField", "deleteField", "setDataPoint"}

\* C1: whenever the height is unset (p-height never assigned, or last
\* assigned a value that is not a number), the height read through the getter
\* is 200 when the type is Gauge and 400 otherwise.
C1_UnsetHeightFollowsType ==
  ~isTypeof(heightInput, "number")
    => height = (IF _type = Gauge THEN Whole(200) ELSE Whole(400))

\* C2: in every reachable state the height read through the getter is an
\* integer greater than or equal to 200.
C2_HeightIsIntegerAtLeast200 ==
  /\ height.t = "number"
  /\ height.n % 10 = 0
  /\ height.n >= 2000

C2_Witness ==
  /\ lastCall = [op |-> "setHeight", arg |-> Number(-1505)]
  /\ height = Whole(200)
  /\ _type = Gauge

\* C3: after the constructor and after every series assignment, minMaxValues
\* is the global minimum and maximum over the data points of chartSeries,
\* min <= max, and undefined when chartSeries has no data point.
C3_MinMaxDescribesChartSeries ==
  lastCall.op \in {"constructor", "setSeries"} =>
    IF chartSeries = Undefined THEN minMaxValues = Undefined
    ELSE LET pts == AllPoints(chartSeries, arrays, objects)
         IN IF pts = {} THEN minMaxValues = Undefined
            ELSE /\ minMaxValues.t = "minmax"
                 /\ minMaxValues.min \in pts
                 /\ minMaxValues.max \in pts
                 /\ \A q \in pts : minMaxValues.min <= q /\ q <= minMaxValues.max

\* C4: after a series assignment chartSeries is a sequence fixed by the shape
\* of the value: empty for null/undefined, the same entries in the same order
\* for an array, empty for an object without keys and for a truthy value that
\* is not an object, one element holding the fields of a non-empty object.
C4_ChartSeriesByShape ==
  lastCall.op = "setSeries" =>
    LET v == lastCall.arg
    IN /\ chartSeries.t = "ownarray"
       /\ chartSeries.elems =
            CASE v.t \in {"undefined", "null"} -> <<>>
              [] v.t = "array" -> arrays[v.id]
              [] v.t = "object" ->
                   IF DOMAIN objects[v.id] = {} THEN <<>>
                   ELSE <<OwnObj(objects[v.id])>>
              [] OTHER -> <<>>

C4_Witness ==
  /\ lastCall = [op |-> "setSeries", arg |-> ObjRef("g1")]
  /\ chartSeries = OwnArr(<<OwnObj([value |-> Whole(42)])>>)
  /\ Len(rebuilds) > 0

\* The integer part of a number given in tenths.
IntegerPart(n) ==
  CHOOSE k \in -500..500 :
    \/ n >= 0 /\ k * 10 <= n /\ n < (k + 1) * 10
    \/ n < 0 /\ k * 10 >= n /\ n > (k - 1) * 10

\* C5: assigning a number n to p-height stores the integer part of n when it
\* is greater than 200 and 200 otherwise, whatever the type: 150 gives 200,
\* 200 gives 200, 201 gives 201, 350.7 gives 350.
C5_NumberIsTruncatedAndFloored ==
  (lastCall.op = "setHeight" /\ lastCall.arg.t = "number") =>
    LET k == IntegerPart(lastCall.arg.n)
    IN /\ _height = Whole(IF k > 200 THEN k ELSE 200)
       /\ (lastCall.arg = Whole(150) => _height = Whole(200))
       /\ (lastCall.arg = Whole(200) => _height = Whole(200))
       /\ (lastCall.arg = Whole(201) => _height = Whole(201))
       /\ (lastCall.arg = Number(3507) => _height = Whole(350))

C5_Witness ==
  /\ lastCall = [op |-> "setHeight", arg |-> Number(3507)]
  /\ _height = Whole(350)
  /\ _type = Gauge

\* C6: after a type assignment the type is the value when it is a member of
\* PoChartType and Pie otherwise; the type is always a member of PoChartType.
C6_TypeIsMemberOrPie ==
  LET members == {Str(m) : m \in {"pie", "donut", "line", "gauge", "area"}}
  IN /\ _type \in members
     /\ lastCall.op = "setType" =>
          _type = (IF lastCall.arg \in members THEN lastCall.arg ELSE Pie)

C6_Witness ==
  /\ lastCall = [op |-> "setType", arg |-> Str("bogus")]
  /\ _type = Pie
  /\ Len(rebuilds) >= 2
  /\ rebuilds[Len(rebuilds) - 1].type = Gauge

\* C7: when p-series holds a non-empty single object v, changing, adding or
\* removing a top-level field of v leaves chartSeries unchanged; and a series
\* assignment changes nothing the caller owns.
C7_CopyDoesNotAliasObject ==
  [][/\ (/\ lastCall'.op \in {"setField", "deleteField"}
         /\ _series = lastCall'.arg.target
         /\ Len(ElemsOf(chartSeries, arrays)) = 1)
          => View(chartSeries', arrays', objects')
               = View(chartSeries, arrays, objects)
     /\ lastCall'.op = "setSeries" => heap' = heap]_vars

C7_Witness ==
  /\ lastCall.op = "setField"
  /\ lastCall.arg.target = ObjRef("g1")
  /\ _series = ObjRef("g1")
  /\ View(chartSeries, arrays, objects)
       = View(OwnArr(<<OwnObj([value |-> Whole(42)])>>), arrays, objects)
  /\ objects["g1"]["value"] = Whole(70)

\* C8: each onSeriesClick(payload) delivers exactly one emission on
\* seriesClick with that payload and none on seriesHover, each
\* onSeriesHover(payload) exactly one on seriesHover and none on seriesClick,
\* in call order; neither changes the component's fields.
C8_RelayEmitsOnceOnItsChannel ==
  [][/\ lastCall'.op = "onSeriesClick" =>
          /\ seriesClick' = Append(seriesClick, lastCall'.arg)
          /\ seriesHover' = seriesHover
          /\ component' = component
     /\ lastCall'.op = "onSeriesHover" =>
          /\ seriesHover' = Append(seriesHover, lastCall'.arg)
          /\ seriesClick' = seriesClick
          /\ component' = component
     /\ lastCall'.op \notin {"onSeriesClick", "onSeriesHover"} =>
          /\ seriesClick' = seriesClick
          /\ seriesHover' = seriesHover]_vars

C8_Witness ==
  /\ lastCall = [op |-> "onSeriesHover", arg |-> ObjRef("o1")]
  /\ seriesClick = <<Null>>
  /\ seriesHover = <<Null, ObjRef("o1")>>

\* C9: every height assignment and every type assignment calls
\* rebuildComponent exactly once, after the new value is stored; no other
\* call does.
C9_RebuildOnceAfterStore ==
  [][IF lastCall'.op \in {"setHeight", "setType"}
       THEN rebuilds' = Append(rebuilds, [height |-> _height', type |-> _type'])
       ELSE rebuilds' = rebuilds]_vars

C9_Witness ==
  /\ lastCall = [op |-> "setType", arg |-> Gauge]
  /\ Len(rebuilds) = 2
  /\ rebuilds[1] = [height |-> Whole(201), type |-> Pie]
  /\ rebuilds[2] = [height |-> Whole(201), type |-> Gauge]

\* C10 as stated: when p-series holds an array v, no change the caller makes
\* (to the elements of v, to a field or a data point of a series in v) is
\* seen through chartSeries or through the series getter.
C10_NothingShared ==
  [][(lastCall'.op \in CallerOps /\ _series.t = "array")
       => /\ View(chartSeries', arrays', objects')
               = View(chartSeries, arrays, objects)
          /\ View(_series', arrays', objects')
               = View(_series, arrays, objects)]_vars

\* C10 amended: after a series assignment of an array v the series getter
\* returns v itself, and chartSeries is another array: adding or removing
\* elements of v leaves chartSeries unchanged.
C10_ArrayIsCopied ==
  [][/\ (lastCall'.op = "setSeries" /\ lastCall'.arg.t = "array")
          => _series' = lastCall'.arg
     /\ (/\ lastCall'.op \in {"push", "pop"}
         /\ _series = lastCall'.arg.target)
          => View(chartSeries', arrays', objects')
               = View(chartSeries, arrays, objects)]_vars

C10_Witness ==
  /\ lastCall.op = "push"
  /\ lastCall.arg.target = ArrRef("a1")
  /\ _series = ArrRef("a1")
  /\ Len(arrays["a1"]) = 3
  /\ Len(ElemsOf(chartSeries, arrays)) = 2

====
